---- MODULE Spec2Model ----
(***************************************************************************)
(* Model of the Yak client transport (src/c/yak.c, src/c/yak.h): the       *)
(* connection life cycle (yak_init, yak_connect, yak_close, yak_is_open),  *)
(* the frame encoder (yak_send_message, print_integer, send_data) and the  *)
(* frame decoder (recv_message_info, recv_message_data, recv_data and the  *)
(* two receive variants).                                                  *)
(*                                                                         *)
(* One action is one call of a public function on the single Connection    *)
(* object of the model.  The operating system and the peer are the         *)
(* environment: the outcome of every system call made during a call        *)
(* (getaddrinfo, socket, connect, close, send, recv, malloc, strdup) is an *)
(* input of the action, and the bytes the peer has written are the         *)
(* variable rx.  Bytes are their ASCII codes.  Error codes and errno are   *)
(* the strings of their C names, "0" being the C value 0.                  *)
(***************************************************************************)
EXTENDS Integers, Sequences, FiniteSets, TLC

VARIABLES conn, fds, rx, errno, ret

vars == <<conn, fds, rx, errno, ret>>

(***************************************************************************)
(* Bounds of the model.                                                    *)
(***************************************************************************)
\* file descriptors are 0..MaxFd: socket() fails once all are in use
MaxFd == 1
\* candidates in the address list getaddrinfo returns
MaxCand == 2
\* width in bits of the C type long of the model (scaled down from 64)
LongBits == 8
\* the first MaxFail system calls of a transfer can be made to fail
MaxFail == 3
\* most bytes one send() or recv() moves when the kernel splits a transfer
MaxChunk == 1
\* length of the long payload (a two-digit length field)
LongLen == 10

(***************************************************************************)
(* Bytes of the wire format.                                               *)
(***************************************************************************)
NL == 10
COLON == 58
DIGIT0 == 48
DIGIT9 == 57
LETTER == 88
NUL == 0
MINUS == 45

NULL == "NULL"
OK == "0"

Min(a, b) == IF a < b THEN a ELSE b

(***************************************************************************)
(* The C type long: LongBits wide, two's complement.                       *)
(***************************************************************************)
Pow2(n) == 2 ^ n

LONG_MAX == Pow2(LongBits - 1) - 1

\* the value a two's complement machine keeps of the mathematical result x
WrapLong(x) == ((x + Pow2(LongBits - 1)) % Pow2(LongBits)) - Pow2(LongBits - 1)

\* what a build makes of a signed overflow, which is undefined in C: it wraps
\* and the comparison that follows sees the wrapped value ("wrap"), or the
\* compiler has removed the comparison as never true ("elide")
UBOutcomes == {"wrap", "elide"}

(***************************************************************************)
(* get_errno                                                               *)
(***************************************************************************)
get_errno(e, def) == IF e = "0" THEN def ELSE e

(***************************************************************************)
(* print_integer: the digits of val, least significant first, as the first *)
(* loop writes them, then reversed in place.  The result is the record     *)
(* [n, str]: n the returned length (-1 when buf is too small), str the     *)
(* bytes of buf before the final NUL.                                      *)
(***************************************************************************)
RECURSIVE OtherDigits(_)
OtherDigits(r) ==
    IF r > 0 THEN <<DIGIT0 + (r % 10)>> \o OtherDigits(r \div 10) ELSE <<>>

Reverse(s) == [i \in 1..Len(s) |-> s[Len(s) + 1 - i]]

MutPrintIntegerNoReverse(len, val) ==
    LET w == <<DIGIT0 + (val % 10)>> \o OtherDigits(val \div 10)
    IN  IF val < 0 \/ len < 2 \/ Len(w) >= len
        THEN [n |-> -1, str |-> <<>>]
        ELSE [n |-> Len(w), str |-> w]

print_integer(len, val) ==
    IF val >= 0
    THEN LET w == <<DIGIT0 + (val % 10)>> \o OtherDigits(val \div 10)
         IN  IF len < 2 \/ Len(w) >= len
             THEN [n |-> -1, str |-> <<>>]
             ELSE [n |-> Len(w), str |-> Reverse(w)]
    ELSE LET w == <<DIGIT0 + ((0 - val) % 10)>> \o OtherDigits((0 - val) \div 10)
         IN  IF len < 3 \/ Len(w) + 1 >= len
             THEN [n |-> -1, str |-> <<>>]
             ELSE [n |-> Len(w) + 1, str |-> <<MINUS>> \o Reverse(w)]

(***************************************************************************)
(* The Connection (yak_connection) and what a call reports.                *)
(***************************************************************************)
Closed == [sock |-> -1, peer |-> NULL, port |-> 0]

yak_is_open(c) == c.sock >= 0

\* yak_init: memset to zero, then sock = -1
yak_init == [sock |-> -1, peer |-> NULL, port |-> 0]

\* The record of the last call: its arguments, its status and outputs, and what
\* it did to the socket, the heap and the resolver.
NoRet ==
    [op |-> "init", status |-> OK, wasOpen |-> FALSE,
     \* arguments: message type, payload (NULL or bytes), length, maxlen
     atype |-> NUL, adata |-> <<>>, anull |-> FALSE, alen |-> 0, maxlen |-> 0,
     \* outputs of a receive: *type, *len, the caller's bytes, *data set or NULL
     type |-> NUL, len |-> 0, out |-> <<>>, dataptr |-> NULL,
     \* socket traffic of the call
     sent |-> <<>>, input |-> <<>>, nread |-> 0, oserr |-> FALSE, zero |-> FALSE,
     \* the header as recv_message_info left it: its status and hdr->len
     hstatus |-> OK, hlen |-> 0, hread |-> 0,
     \* system calls: close(), malloc(), free(), getaddrinfo(), socket()
     closes |-> 0, nalloc |-> 0, allocsz |-> 0, nfree |-> 0, nomem |-> FALSE,
     gai |-> 0, nsock |-> 0,
     tried |-> 0, ahost |-> NULL, aport |-> 0,
     \* yak_connect: the candidates getaddrinfo gave, the sockets open on entry
     alist |-> <<>>, ofds |-> {}]

(***************************************************************************)
(* yak_close.  closeFails: the close() of the socket returns an error; the *)
(* descriptor is released all the same (Linux).  The result is the record  *)
(* [conn, fds, errno, status, closes].                                     *)
(***************************************************************************)
\* yak_close without the reset of peer and port
MutCloseKeepsPeer(c, f, e, closeFails) ==
    [conn   |-> [c EXCEPT !.sock = -1],
     fds    |-> f \ {c.sock},
     errno  |-> IF c.sock >= 0 /\ closeFails THEN "EIO" ELSE e,
     status |-> IF c.sock >= 0 /\ closeFails THEN "EIO" ELSE OK,
     closes |-> IF c.sock >= 0 THEN 1 ELSE 0]

\* yak_close without the test of conn->sock: close() is called on -1 too
MutCloseAlwaysCloses(c, f, e, closeFails) ==
    [conn   |-> [sock |-> -1, peer |-> NULL, port |-> 0],
     fds    |-> f \ {c.sock},
     errno  |-> IF closeFails \/ c.sock < 0 THEN "EBADF" ELSE e,
     status |-> IF closeFails \/ c.sock < 0 THEN "EBADF" ELSE OK,
     closes |-> 1]

yak_close(c, f, e, closeFails) ==
    LET osclose == c.sock # -1 /\ c.sock >= 0
        failed  == osclose /\ closeFails
    IN  [conn   |-> [sock |-> -1, peer |-> NULL, port |-> 0],
         fds    |-> IF osclose THEN f \ {c.sock} ELSE f,
         errno  |-> IF failed THEN "EIO" ELSE e,
         status |-> IF failed THEN "EIO" ELSE OK,
         closes |-> IF osclose THEN 1 ELSE 0]

(***************************************************************************)
(* The system calls send() and recv() of one public call.  The calls are   *)
(* numbered 1, 2, ... through the public call; io says how each behaves:   *)
(* a call moves at most io.chunk bytes (0: as many as asked for), and call *)
(* number io.failAt (0: none) returns io.res: -1 with errno set to io.err, *)
(* or 0.  A recv() on an exhausted stream returns 0: the peer has closed.  *)
(***************************************************************************)
Chunks == 0..MaxChunk

\* the errno of a failing send() or recv(): an interruption by a signal, or a
\* fault of the transport
IoErrnos == {"EINTR", "ETIMEDOUT"}

NoFault == [chunk |-> 0, failAt |-> 0, res |-> 0, err |-> "0"]

IoSplits == {[NoFault EXCEPT !.chunk = a] : a \in Chunks}

SendEnvs ==
    IoSplits
    \cup {[s EXCEPT !.failAt = k, !.res = -1, !.err = e] :
              s \in IoSplits, k \in 1..MaxFail, e \in IoErrnos}
    \cup {[s EXCEPT !.failAt = k, !.res = 0] : s \in IoSplits, k \in 1..MaxFail}

RecvEnvs ==
    IoSplits
    \cup {[s EXCEPT !.failAt = k, !.res = -1, !.err = e] :
              s \in IoSplits, k \in 1..MaxFail, e \in IoErrnos}

\* the most bytes system call number k moves when asked for want
Moved(io, k, want) ==
    IF io.chunk = 0 THEN want ELSE Min(want, io.chunk)

(***************************************************************************)
(* send_data: the loop over send().  done: bytes sent so far, len: bytes   *)
(* left, k: system calls made so far.  Result [n, k, out, errno]: n the    *)
(* returned count (-1 on error), out the bytes that reached the socket.    *)
(***************************************************************************)
RECURSIVE send_loop(_, _, _, _, _, _)
send_loop(data, done, len, k, e, io) ==
    IF len > 0
    THEN IF io.failAt = k + 1
         THEN [n |-> IF io.res < 0 THEN -1 ELSE done, k |-> k + 1,
               out |-> SubSeq(data, 1, done),
               errno |-> IF io.res < 0 THEN io.err ELSE e]
         ELSE send_loop(data, done + Moved(io, k + 1, len),
                        len - Moved(io, k + 1, len), k + 1, e, io)
    ELSE [n |-> done, k |-> k, out |-> SubSeq(data, 1, done), errno |-> e]

send_data(data, len, k, e, io) == send_loop(data, 0, len, k, e, io)

(***************************************************************************)
(* recv_data: the loop over recv().  s: the bytes still on the socket.     *)
(* Result [n, k, got, rest, errno]: n the returned count (-1 on error),    *)
(* got the bytes stored, rest the bytes left on the socket.                *)
(***************************************************************************)
RECURSIVE recv_loop(_, _, _, _, _, _)
recv_loop(s, got, len, k, e, io) ==
    IF len > 0
    THEN IF io.failAt = k + 1
         THEN [n |-> -1, k |-> k + 1, got |-> got, rest |-> s, errno |-> io.err]
         ELSE IF s = <<>>
              THEN [n |-> Len(got), k |-> k + 1, got |-> got, rest |-> s,
                    errno |-> e]
              ELSE recv_loop(
                       SubSeq(s, Moved(io, k + 1, Min(len, Len(s))) + 1, Len(s)),
                       got \o SubSeq(s, 1, Moved(io, k + 1, Min(len, Len(s)))),
                       len - Moved(io, k + 1, Min(len, Len(s))), k + 1, e, io)
    ELSE [n |-> Len(got), k |-> k, got |-> got, rest |-> s, errno |-> e]

recv_data(s, len, k, e, io) == recv_loop(s, <<>>, len, k, e, io)

(***************************************************************************)
(* yak_send_message(conn, type, data, len).  dnull: data is NULL; else     *)
(* data is the caller's bytes, the first len the payload.  Result:         *)
(* [status, conn, fds, errno, sent, closes, oserr, zero].  The operators   *)
(* SendHeader, SendPayload and SendTrailer are the function from the point *)
(* where the value of their last parameter is known: the rendered length,  *)
(* the send_data of the header, the send_data of the payload.              *)
(***************************************************************************)
HeaderSize == 32

SendResult(status, cl, sent, oserr, zero) ==
    [status |-> status, conn |-> cl.conn, fds |-> cl.fds, errno |-> cl.errno,
     sent |-> sent, closes |-> cl.closes, oserr |-> oserr, zero |-> zero]

\* the label error: yak_close(conn), return status
SendError(c, f, e, status, sent, oserr, zero, closeFails) ==
    SendResult(status, yak_close(c, f, e, closeFails), sent, oserr, zero)

\* the status is returned without the goto error
MutSendShortNoClose(c, f, r, sent, closeFails) ==
    [status |-> get_errno(r.errno, IF r.n < 0 THEN "EIO" ELSE "ECONNRESET"),
     conn |-> c, fds |-> f, errno |-> r.errno, sent |-> sent, closes |-> 0,
     oserr |-> r.n < 0, zero |-> r.n >= 0]

\* a transfer that returned r.n instead of the count asked for: status =
\* get_errno(nbytes < 0 ? EIO : ECONNRESET); goto error
SendShort(c, f, r, sent, closeFails) ==
    SendError(c, f, r.errno,
              get_errno(r.errno, IF r.n < 0 THEN "EIO" ELSE "ECONNRESET"),
              sent, r.n < 0, r.n >= 0, closeFails)

SendTrailer(c, f, io, closeFails, sent, t) ==
    IF t.n # 1
    THEN SendShort(c, f, t, sent \o t.out, closeFails)
    ELSE [status |-> OK, conn |-> c, fds |-> f, errno |-> t.errno,
          sent |-> sent \o t.out, closes |-> 0, oserr |-> FALSE, zero |-> FALSE]

\* the final newline is sent only after a payload
MutSendPayloadNoEmptyTrailer(c, f, len, io, closeFails, sent, d) ==
    IF len > 0 /\ d.n # len
    THEN SendShort(c, f, d, sent \o d.out, closeFails)
    ELSE IF len > 0
    THEN SendTrailer(c, f, io, closeFails, sent \o d.out,
                     send_data(<<NL>>, 1, d.k, d.errno, io))
    ELSE [status |-> OK, conn |-> c, fds |-> f, errno |-> d.errno,
          sent |-> sent, closes |-> 0, oserr |-> FALSE, zero |-> FALSE]

SendPayload(c, f, len, io, closeFails, sent, d) ==
    IF len > 0 /\ d.n # len
    THEN SendShort(c, f, d, sent \o d.out, closeFails)
    ELSE SendTrailer(c, f, io, closeFails, sent \o d.out,
                     send_data(<<NL>>, 1, d.k, d.errno, io))

SendHeader(c, f, data, len, io, closeFails, ndigits, h) ==
    IF h.n # ndigits + 3
    THEN SendShort(c, f, h, h.out, closeFails)
    ELSE SendPayload(c, f, len, io, closeFails, h.out,
                     IF len > 0
                     THEN send_data(data, len, h.k, h.errno, io)
                     ELSE [n |-> 0, k |-> h.k, out |-> <<>>, errno |-> h.errno])

SendMessage(c, f, e, type, data, len, io, closeFails, pi) ==
    IF pi.n < 0 \/ pi.n + 3 >= HeaderSize
    THEN SendError(c, f, e, "EOVERFLOW", <<>>, FALSE, FALSE, closeFails)
    ELSE SendHeader(c, f, data, len, io, closeFails, pi.n,
                    send_data(<<type, COLON>> \o pi.str \o <<NL>>, pi.n + 3, 0,
                              e, io))

yak_send_message(c, f, e, type, dnull, data, len, io, closeFails) ==
    IF c.sock < 0
    THEN [status |-> "EBADF", conn |-> c, fds |-> f, errno |-> e, sent |-> <<>>,
          closes |-> 0, oserr |-> FALSE, zero |-> FALSE]
    ELSE IF len < 0
    THEN SendError(c, f, e, "EINVAL", <<>>, FALSE, FALSE, closeFails)
    ELSE IF dnull /\ len > 0
    THEN SendError(c, f, e, "EFAULT", <<>>, FALSE, FALSE, closeFails)
    ELSE SendMessage(c, f, e, type, data, len, io, closeFails,
                     print_integer(HeaderSize - 2, len))

(***************************************************************************)
(* recv_message_info: the header.  s: the bytes on the socket, k: system   *)
(* calls made so far, ub: what the build makes of a signed overflow.       *)
(* Result [status, len, type, rest, k, errno, oserr]: len and type are     *)
(* hdr->len and hdr->type on return.  HdrFixed is the function once the    *)
(* four bytes are read; HdrDigits is one turn of the while loop, with c    *)
(* the byte in hand and len the length so far; HdrNext is the end of the   *)
(* turn, once the next byte is read.  r is the last recv_data: its rest, k *)
(* and errno are the current ones.                                         *)
(***************************************************************************)
IsDigit(c) == c >= DIGIT0 /\ c <= DIGIT9

HdrFail(status, r) ==
    [status |-> status, len |-> 0, type |-> NUL, rest |-> r.rest, k |-> r.k,
     errno |-> r.errno, oserr |-> r.n < 0]

\* return nbytes < 0 ? get_errno(EIO) : EBADMSG
ShortRead(r) == IF r.n < 0 THEN get_errno(r.errno, "EIO") ELSE "EBADMSG"

RECURSIVE HdrDigits(_, _, _, _, _, _)

HdrNext(type, len, io, ub, n) ==
    IF n.n # 1
    THEN HdrFail(ShortRead(n), n)
    ELSE HdrDigits(type, len, n.got[1], n, io, ub)

\* len = (c - '0') + 10*len; if (len < prev) return EOVERFLOW
HdrFold(type, prev, new, r, io, ub) ==
    IF new < prev /\ ub = "wrap"
    THEN HdrFail("EOVERFLOW", r)
    ELSE HdrNext(type, new, io, ub, recv_data(r.rest, 1, r.k, r.errno, io))

HdrDigits(type, len, c, r, io, ub) ==
    IF c = NL
    THEN [status |-> OK, len |-> len, type |-> type, rest |-> r.rest, k |-> r.k,
          errno |-> r.errno, oserr |-> FALSE]
    ELSE IF IsDigit(c)
    THEN HdrFold(type, len, WrapLong((c - DIGIT0) + 10 * len), r, io, ub)
    ELSE HdrFail("EBADMSG", r)

\* the second byte is not compared with ':'
MutHdrFixedNoColon(io, ub, r) ==
    IF r.n # 4
    THEN HdrFail(ShortRead(r), r)
    ELSE IF ~IsDigit(r.got[3])
    THEN HdrFail("EBADMSG", r)
    ELSE HdrDigits(r.got[1], r.got[3] - DIGIT0, r.got[4], r, io, ub)

HdrFixed(io, ub, r) ==
    IF r.n # 4
    THEN HdrFail(ShortRead(r), r)
    ELSE IF r.got[2] # COLON
    THEN HdrFail("EBADMSG", r)
    ELSE IF ~IsDigit(r.got[3])
    THEN HdrFail("EBADMSG", r)
    ELSE HdrDigits(r.got[1], r.got[3] - DIGIT0, r.got[4], r, io, ub)

recv_message_info(s, k, e, io, ub) == HdrFixed(io, ub, recv_data(s, 4, k, e, io))

(***************************************************************************)
(* recv_message_data: len payload bytes, then the final newline.  Result   *)
(* [status, got, rest, k, errno, oserr]: got the bytes stored in data.     *)
(* DataTrailer is the function once the final byte is read, DataPayload    *)
(* once the payload is.                                                    *)
(***************************************************************************)
DataTrailer(got, t) ==
    [status |-> IF t.n # 1 THEN ShortRead(t)
                ELSE IF t.got[1] # NL THEN "EBADMSG" ELSE OK,
     got |-> got, rest |-> t.rest, k |-> t.k, errno |-> t.errno,
     oserr |-> t.n < 0]

DataPayload(len, io, d) ==
    IF len > 0 /\ d.n # len
    THEN [status |-> ShortRead(d), got |-> d.got, rest |-> d.rest, k |-> d.k,
          errno |-> d.errno, oserr |-> d.n < 0]
    ELSE DataTrailer(d.got, recv_data(d.rest, 1, d.k, d.errno, io))

recv_message_data(s, len, k, e, io) ==
    DataPayload(len, io,
                IF len > 0
                THEN recv_data(s, len, k, e, io)
                ELSE [n |-> 0, k |-> k, got |-> <<>>, rest |-> s, errno |-> e])

(***************************************************************************)
(* The two receive variants.  The caller passes type and len (as           *)
(* yak-client.c does); dnull: the argument data is NULL.  Result: the      *)
(* record RecvResult.  InBufferHeader and RecvHeader are the functions     *)
(* once the header msg is read, InBufferData and RecvData once the payload *)
(* and the final newline are.                                              *)
(***************************************************************************)
RecvResult(status, c, f, e, rest) ==
    [status |-> status, conn |-> c, fds |-> f, errno |-> e, rest |-> rest,
     type |-> NUL, len |-> 0, out |-> <<>>, dataptr |-> NULL, oserr |-> FALSE,
     closes |-> 0, hstatus |-> OK, hlen |-> 0, hread |-> 0,
     nalloc |-> 0, allocsz |-> 0, nfree |-> 0, nomem |-> FALSE]

\* the label error: yak_close(conn), return status
Closing(res, cl) ==
    [res EXCEPT !.conn = cl.conn, !.fds = cl.fds, !.errno = cl.errno,
                !.closes = cl.closes]

RecvError(res, c, f, closeFails) ==
    Closing(res, yak_close(c, f, res.errno, closeFails))

\* the state of a receive once the header is read
HeaderRead(c, f, s, msg) ==
    [RecvResult(msg.status, c, f, msg.errno, msg.rest) EXCEPT
        !.oserr = msg.oserr, !.hstatus = msg.status, !.hlen = msg.len,
        !.hread = Len(s) - Len(msg.rest)]

\* the state of a receive once recv_message_data has returned d
PayloadRead(hd, d) ==
    [hd EXCEPT !.status = d.status, !.errno = d.errno, !.rest = d.rest,
               !.oserr = d.oserr, !.out = d.got]

\* bd: the state once the payload and the final newline are read
InBufferData(c, f, closeFails, msg, bd) ==
    IF bd.status # OK
    THEN RecvError(bd, c, f, closeFails)
    ELSE [bd EXCEPT !.type = msg.type, !.len = msg.len]

\* msg.len is not compared with maxlen
MutInBufferHeaderNoBound(c, f, maxlen, io, closeFails, hd, msg) ==
    IF msg.status # OK
    THEN RecvError(hd, c, f, closeFails)
    ELSE InBufferData(c, f, closeFails, msg,
                      PayloadRead(hd, recv_message_data(msg.rest, msg.len, msg.k,
                                                        msg.errno, io)))

InBufferHeader(c, f, maxlen, io, closeFails, hd, msg) ==
    IF msg.status # OK
    THEN RecvError(hd, c, f, closeFails)
    ELSE IF msg.len > maxlen
    THEN RecvError([hd EXCEPT !.status = "EMSGSIZE"], c, f, closeFails)
    ELSE InBufferData(c, f, closeFails, msg,
                      PayloadRead(hd, recv_message_data(msg.rest, msg.len, msg.k,
                                                        msg.errno, io)))

InBufferStart(c, f, s, maxlen, io, closeFails, msg) ==
    InBufferHeader(c, f, maxlen, io, closeFails, HeaderRead(c, f, s, msg), msg)

yak_recv_message_in_buffer(c, f, e, s, dnull, maxlen, io, ub, closeFails) ==
    IF c.sock < 0
    THEN RecvResult("EBADF", c, f, e, s)
    ELSE IF maxlen < 0
    THEN RecvError(RecvResult("EINVAL", c, f, e, s), c, f, closeFails)
    ELSE IF dnull /\ maxlen > 0
    THEN RecvError(RecvResult("EFAULT", c, f, e, s), c, f, closeFails)
    ELSE InBufferStart(c, f, s, maxlen, io, closeFails,
                       recv_message_info(s, 0, e, io, ub))

\* buf is not freed when recv_message_data fails
MutRecvDataNoFree(c, f, closeFails, msg, bd) ==
    IF bd.status = OK
    THEN [bd EXCEPT !.type = msg.type, !.len = msg.len, !.dataptr = "buf",
                    !.nalloc = 1, !.allocsz = msg.len]
    ELSE RecvError([bd EXCEPT !.out = <<>>, !.nalloc = 1, !.allocsz = msg.len],
                   c, f, closeFails)

\* bd: the state once the payload and the final newline are read into buf
RecvData(c, f, closeFails, msg, bd) ==
    IF bd.status = OK
    THEN [bd EXCEPT !.type = msg.type, !.len = msg.len, !.dataptr = "buf",
                    !.nalloc = 1, !.allocsz = msg.len]
    ELSE RecvError([bd EXCEPT !.out = <<>>, !.nalloc = 1, !.allocsz = msg.len,
                              !.nfree = 1], c, f, closeFails)

RecvHeader(c, f, io, mallocFails, closeFails, hd, msg) ==
    IF msg.status # OK
    THEN RecvError(hd, c, f, closeFails)
    ELSE IF msg.len > 0
    THEN IF mallocFails
         THEN RecvError([hd EXCEPT !.status = get_errno("ENOMEM", "ENOMEM"),
                                   !.errno = "ENOMEM", !.nomem = TRUE],
                        c, f, closeFails)
         ELSE RecvData(c, f, closeFails, msg,
                       PayloadRead(hd, recv_message_data(msg.rest, msg.len, msg.k,
                                                         msg.errno, io)))
    ELSE [hd EXCEPT !.type = msg.type, !.len = msg.len]

RecvStart(c, f, s, io, mallocFails, closeFails, msg) ==
    RecvHeader(c, f, io, mallocFails, closeFails, HeaderRead(c, f, s, msg), msg)

yak_recv_message(c, f, e, s, dnull, io, ub, mallocFails, closeFails) ==
    IF dnull
    THEN RecvResult("EFAULT", c, f, e, s)
    ELSE IF c.sock < 0
    THEN RecvResult("EBADF", c, f, e, s)
    ELSE RecvStart(c, f, s, io, mallocFails, closeFails,
                   recv_message_info(s, 0, e, io, ub))

(***************************************************************************)
(* listaddrinfo and yak_connect.  The resolver and the network are inputs: *)
(* list is what getaddrinfo yields when it is called: NoList (it fails) or *)
(* the sequence of candidates, each saying what happens to it: "ok" (the   *)
(* connect succeeds), "refused" (socket() succeeds, connect() fails),      *)
(* "nosock" (socket() fails).  socket() yields the lowest free descriptor  *)
(* and fails when none is free.                                            *)
(***************************************************************************)
Fds == 0..MaxFd

Hosts == {NULL, "", "hostA"}

Ports == {-1, 65535, 65536}

NoList == <<"nolist">>

CandLists ==
    {NoList} \cup UNION {[1..n -> {"ok", "refused", "nosock"}] : n \in 1..MaxCand}

ServiceSize == 8

\* [called, list, errno]: called = getaddrinfo was called
listaddrinfo(host, port, e, list) ==
    IF host = NULL
    THEN [called |-> 0, list |-> NoList, errno |-> "EFAULT"]
    ELSE IF port < 0 \/ port > 65535
    THEN [called |-> 0, list |-> NoList, errno |-> "EINVAL"]
    ELSE IF print_integer(ServiceSize, port).n < 0
    THEN [called |-> 0, list |-> NoList, errno |-> "EOVERFLOW"]
    ELSE [called |-> 1, list |-> IF host = "" THEN NoList ELSE list, errno |-> e]

LowestFree(f) == CHOOSE d \in Fds \ f : \A o \in Fds \ f : d <= o

RECURSIVE ConnectLoop(_, _, _, _, _, _)

\* the socket of a candidate that refuses the connection is not closed
MutConnectLoopNoClose(list, i, f, e, nsock, closes) ==
    IF list = NoList \/ i > Len(list)
    THEN [sock |-> -1, fds |-> f, errno |-> e, nsock |-> nsock, closes |-> closes,
          tried |-> IF list = NoList THEN 0 ELSE Len(list)]
    ELSE IF list[i] = "nosock" \/ Fds \ f = {}
    THEN ConnectLoop(list, i + 1, f, "EMFILE", nsock + 1, closes)
    ELSE IF list[i] = "ok"
    THEN [sock |-> LowestFree(f), fds |-> f \cup {LowestFree(f)}, errno |-> e,
          nsock |-> nsock + 1, closes |-> closes, tried |-> i]
    ELSE ConnectLoop(list, i + 1, f \cup {LowestFree(f)}, "ECONNREFUSED",
                     nsock + 1, closes)

\* the for loop over the candidates, from candidate i on
ConnectLoop(list, i, f, e, nsock, closes) ==
    IF list = NoList \/ i > Len(list)
    THEN [sock |-> -1, fds |-> f, errno |-> e, nsock |-> nsock, closes |-> closes,
          tried |-> IF list = NoList THEN 0 ELSE Len(list)]
    ELSE IF list[i] = "nosock" \/ Fds \ f = {}
    THEN ConnectLoop(list, i + 1, f, "EMFILE", nsock + 1, closes)
    ELSE IF list[i] = "ok"
    THEN [sock |-> LowestFree(f), fds |-> f \cup {LowestFree(f)}, errno |-> e,
          nsock |-> nsock + 1, closes |-> closes, tried |-> i]
    ELSE ConnectLoop(list, i + 1, f, "ECONNREFUSED", nsock + 1, closes + 1)

\* [status, conn, fds, errno, gai, nsock, closes, tried]
ConnectResult(status, c, f, e, la, lp, closes) ==
    [status |-> status, conn |-> c, fds |-> f, errno |-> e, gai |-> la.called,
     nsock |-> lp.nsock, closes |-> closes, tried |-> lp.tried]

\* strdup has failed: status = get_errno(ENOMEM); yak_close(conn)
ConnectNoPeer(la, lp, cl) ==
    ConnectResult(get_errno("ENOMEM", "ENOMEM"), cl.conn, cl.fds, cl.errno, la,
                  lp, lp.closes + cl.closes)

\* the Connection is reset but its socket is not closed when strdup fails
MutConnectedNoClose(h, port, strdupFails, closeFails, la, lp) ==
    IF lp.sock = -1
    THEN ConnectResult("EACCES", yak_init, lp.fds, lp.errno, la, lp, lp.closes)
    ELSE IF strdupFails
    THEN ConnectResult("ENOMEM", yak_init, lp.fds, "ENOMEM", la, lp, lp.closes)
    ELSE ConnectResult(OK, [sock |-> lp.sock, peer |-> h, port |-> port],
                       lp.fds, lp.errno, la, lp, lp.closes)

\* yak_connect once the loop over the candidates has ended in lp
Connected(h, port, strdupFails, closeFails, la, lp) ==
    IF lp.sock = -1
    THEN ConnectResult("EACCES", yak_init, lp.fds, lp.errno, la, lp, lp.closes)
    ELSE IF strdupFails
    THEN ConnectNoPeer(la, lp, yak_close([yak_init EXCEPT !.sock = lp.sock],
                                         lp.fds, "ENOMEM", closeFails))
    ELSE ConnectResult(OK, [sock |-> lp.sock, peer |-> h, port |-> port],
                       lp.fds, lp.errno, la, lp, lp.closes)

Resolved(h, port, f, strdupFails, closeFails, la) ==
    Connected(h, port, strdupFails, closeFails, la,
              ConnectLoop(la.list, 1, f, la.errno, 0, 0))

yak_connect(c, f, e, host, port, list, strdupFails, closeFails) ==
    Resolved(IF host = NULL THEN "127.0.0.1" ELSE host, port, f, strdupFails,
             closeFails,
             listaddrinfo(IF host = NULL THEN "127.0.0.1" ELSE host, port, e,
                          list))

(***************************************************************************)
(* Inputs of the calls.                                                    *)
(***************************************************************************)
Types == {LETTER, NL}

LongPayload == [i \in 1..LongLen |-> IF i % 2 = 1 THEN LETTER ELSE NL]

Payloads == {<<>>, <<LETTER>>, <<NL, COLON>>, LongPayload}

\* the arguments (data, len) of a send: [dnull, data, len]
SendArgs ==
    {[dnull |-> FALSE, data |-> p, len |-> Len(p)] : p \in Payloads}
    \cup {[dnull |-> TRUE, data |-> <<>>, len |-> n] : n \in {0, 1}}
    \cup {[dnull |-> FALSE, data |-> <<LETTER>>, len |-> -1]}

\* the arguments (data, maxlen) of a bounded receive: [dnull, maxlen]
RecvArgs ==
    {[dnull |-> FALSE, maxlen |-> n] : n \in {-1, 0, 1, 2, LongLen}}
    \cup {[dnull |-> TRUE, maxlen |-> n] : n \in {0, 1}}

(***************************************************************************)
(* What the peer writes: well-formed frames, each of them cut short, with  *)
(* one byte replaced, or followed by another frame, and headers with up to *)
(* MaxDigits digits, ended by a newline or by a letter.                    *)
(***************************************************************************)
MaxDigits == 4

Alphabet == {NL, COLON, DIGIT0, DIGIT9, LETTER}

\* the bytes of the frame of message (type, data): what a yak_send_message that
\* meets no fault puts on the socket
Wire(type, data) ==
    yak_send_message([Closed EXCEPT !.sock = 0], {0}, "0", type, FALSE, data,
                     Len(data), NoFault, FALSE).sent

Frames == {Wire(LETTER, p) : p \in {<<>>, <<LETTER>>, <<NL, COLON>>}}

Truncated(F) == {SubSeq(F, 1, n) : n \in 0..Len(F)}

Corrupted(F) == {[F EXCEPT ![i] = b] : i \in 1..Len(F), b \in Alphabet}

DigitStrings == UNION {[1..n -> {DIGIT0, DIGIT0 + 3}] : n \in 1..MaxDigits}

DigitHeaders == {<<LETTER, COLON>> \o ds \o <<NL>> : ds \in DigitStrings}

Streams ==
    UNION {Truncated(F) \cup Corrupted(F) : F \in Frames}
    \cup {F \o G : F \in Frames, G \in Frames}
    \cup DigitHeaders
    \cup {h \o <<NL>> : h \in DigitHeaders}
    \cup {<<LETTER, COLON>> \o ds \o <<LETTER, NL>> : ds \in DigitStrings}

(***************************************************************************)
(* The state machine: one action per public function, and the peer.        *)
(***************************************************************************)
\* what the peer writes in the life cycle specification
PeerStreams == {Wire(LETTER, <<>>), <<LETTER, LETTER>>}

\* the messages of the life cycle specification: an empty and a two-byte
\* payload, a NULL payload of length 1, a negative length
LifeArgs ==
    {a \in SendArgs : a.len < 0 \/ (a.dnull /\ a.len > 0)
                         \/ (~a.dnull /\ a.len \in {0, 2})}

Init ==
    /\ conn = yak_init
    /\ fds = {}
    /\ rx = <<>>
    /\ errno = "0"
    /\ ret = NoRet

\* the inputs of a yak_connect that matter: the candidate list only when
\* getaddrinfo is called on a host it can resolve, and the failure of close()
\* only when strdup fails
ConnectEnvs ==
    {[host |-> h, port |-> p, list |-> l, strdupFails |-> sf, closeFails |-> cf] :
        h \in Hosts, p \in Ports, l \in CandLists, sf \in BOOLEAN, cf \in BOOLEAN}

ConnectInputs ==
    {i \in ConnectEnvs :
        /\ (i.host = "" \/ i.port < 0 \/ i.port > 65535) => i.list = NoList
        /\ (i.list = NoList \/ \A k \in 1..Len(i.list) : i.list[k] # "ok")
               => ~i.strdupFails
        /\ ~i.strdupFails => ~i.closeFails}

Connect ==
    \E i \in ConnectInputs :
        \E r \in {yak_connect(conn, fds, errno, i.host, i.port, i.list,
                             i.strdupFails, i.closeFails)} :
            /\ conn' = r.conn
            /\ fds' = r.fds
            /\ errno' = r.errno
            /\ rx' = <<>>
            /\ ret' = [NoRet EXCEPT !.op = "connect", !.status = r.status,
                          !.wasOpen = yak_is_open(conn), !.ahost = i.host,
                          !.aport = i.port, !.gai = r.gai, !.nsock = r.nsock,
                          !.closes = r.closes, !.tried = r.tried,
                          !.alist = IF r.gai = 1 THEN i.list ELSE <<>>,
                          !.ofds = fds]

\* a closed Connection has no socket to close: the outcome of close() is no input
CloseFailures == IF yak_is_open(conn) THEN BOOLEAN ELSE {FALSE}

Close ==
    \E closeFails \in CloseFailures :
        \E r \in {yak_close(conn, fds, errno, closeFails)} :
            /\ conn' = r.conn
            /\ fds' = r.fds
            /\ errno' = r.errno
            /\ rx' = <<>>
            /\ ret' = [NoRet EXCEPT !.op = "close", !.status = r.status,
                          !.wasOpen = yak_is_open(conn), !.closes = r.closes]

\* on a closed Connection no system call is made: their outcomes are no inputs
SendOf(types, args) ==
    \E type \in types, a \in args,
       io \in (IF yak_is_open(conn) THEN SendEnvs ELSE {NoFault}),
       closeFails \in CloseFailures :
        \E r \in {yak_send_message(conn, fds, errno, type, a.dnull, a.data, a.len,
                                  io, closeFails)} :
            /\ conn' = r.conn
            /\ fds' = r.fds
            /\ errno' = r.errno
            /\ rx' = IF yak_is_open(r.conn) THEN rx ELSE <<>>
            /\ ret' = [NoRet EXCEPT !.op = "send", !.status = r.status,
                          !.wasOpen = yak_is_open(conn), !.atype = type,
                          !.adata = a.data, !.anull = a.dnull, !.alen = a.len,
                          !.sent = r.sent, !.closes = r.closes,
                          !.oserr = r.oserr, !.zero = r.zero]

Send == SendOf({LETTER}, LifeArgs)

\* the record of a receive
RecvRet(op, r, dnull, maxlen) ==
    [NoRet EXCEPT !.op = op, !.status = r.status, !.wasOpen = yak_is_open(conn),
        !.anull = dnull, !.maxlen = maxlen, !.type = r.type, !.len = r.len,
        !.out = r.out, !.dataptr = r.dataptr, !.input = rx,
        !.nread = Len(rx) - Len(r.rest), !.oserr = r.oserr,
        !.hstatus = r.hstatus, !.hlen = r.hlen, !.hread = r.hread,
        !.closes = r.closes, !.nalloc = r.nalloc, !.allocsz = r.allocsz,
        !.nfree = r.nfree, !.nomem = r.nomem]

\* the signed overflow is an input only when the header on the socket has one
Overflows(s) ==
    recv_message_info(s, 0, "0", NoFault, "wrap")
        # recv_message_info(s, 0, "0", NoFault, "elide")

UBInputs == IF yak_is_open(conn) /\ Overflows(rx) THEN UBOutcomes ELSE {"wrap"}

RecvInBuffer ==
    \E a \in RecvArgs,
       io \in (IF yak_is_open(conn) THEN RecvEnvs ELSE {NoFault}),
       ub \in UBInputs, closeFails \in CloseFailures :
        \E r \in {yak_recv_message_in_buffer(conn, fds, errno, rx, a.dnull,
                                            a.maxlen, io, ub, closeFails)} :
            /\ conn' = r.conn
            /\ fds' = r.fds
            /\ errno' = r.errno
            /\ rx' = IF yak_is_open(r.conn) THEN r.rest ELSE <<>>
            /\ ret' = RecvRet("recv_in_buffer", r, a.dnull, a.maxlen)

Recv ==
    \E dnull \in BOOLEAN,
       io \in (IF yak_is_open(conn) THEN RecvEnvs ELSE {NoFault}),
       ub \in UBInputs,
       mallocFails \in (IF yak_is_open(conn) THEN BOOLEAN ELSE {FALSE}),
       closeFails \in CloseFailures :
        \E r \in {yak_recv_message(conn, fds, errno, rx, dnull, io, ub,
                                  mallocFails, closeFails)} :
            /\ conn' = r.conn
            /\ fds' = r.fds
            /\ errno' = r.errno
            /\ rx' = IF yak_is_open(r.conn) THEN r.rest ELSE <<>>
            /\ ret' = RecvRet("recv", r, dnull, 0)

\* the peer answers on an idle socket: it writes a stream
PeerReply ==
    /\ yak_is_open(conn)
    /\ rx = <<>>
    /\ \E s \in PeerStreams : rx' = s
    /\ UNCHANGED <<conn, fds, errno, ret>>

\* the peer echoes the frame just sent to it
PeerEcho ==
    /\ yak_is_open(conn)
    /\ rx = <<>>
    /\ ret.op = "send"
    /\ rx' = ret.sent
    /\ UNCHANGED <<conn, fds, errno, ret>>

(***************************************************************************)
(* Spec: any sequence of calls on the Connection, from yak_init on.        *)
(***************************************************************************)
Next == Connect \/ Close \/ Send \/ RecvInBuffer \/ Recv \/ PeerReply \/ PeerEcho

Spec == Init /\ [][Next]_vars

(***************************************************************************)
(* SpecCodec: the encoder and the decoder on a Connection that yak_connect *)
(* has opened (host "hostA", port 80, descriptor 0), the peer having       *)
(* written any of Streams.  A message is sent when no answer is pending.   *)
(***************************************************************************)
InitCodec ==
    /\ conn = [sock |-> 0, peer |-> "hostA", port |-> 80]
    /\ fds = {0}
    /\ rx \in Streams
    /\ errno = "0"
    /\ ret = [NoRet EXCEPT !.op = "connect", !.ahost = "hostA", !.aport = 80,
                           !.gai = 1, !.nsock = 1, !.tried = 1]

Request == rx = <<>> /\ SendOf(Types, SendArgs)

NextCodec == Request \/ PeerEcho \/ RecvInBuffer \/ Recv

SpecCodec == InitCodec /\ [][NextCodec]_vars

(***************************************************************************)
(* What the claims speak of.                                               *)
(***************************************************************************)
IsRecv == ret.op \in {"recv", "recv_in_buffer"}

\* the arguments of the last receive pass the argument validation
ValidRecvArgs ==
    IF ret.op = "recv"
    THEN ~ret.anull
    ELSE ret.maxlen >= 0 /\ (ret.anull => ret.maxlen = 0)

\* no system call of the last call failed: no recv() or send() error, no
\* zero-progress send(), no malloc() failure
NoOsFault == ~ret.oserr /\ ~ret.zero /\ ~ret.nomem

FullyOpen(c) ==
    /\ c.sock >= 0
    /\ c.sock \in fds
    /\ c.peer # NULL
    /\ c.port \in 0..65535

FullyClosed(c) == c.sock = -1 /\ c.peer = NULL /\ c.port = 0

(***************************************************************************)
(* C1: every call of a receive variant on an open Connection that returns  *)
(* an error leaves the Connection closed.  Violated: yak_recv_message      *)
(* returns EFAULT for a NULL data argument before it reaches the label     *)
(* error, and the Connection stays open.                                   *)
(***************************************************************************)
C1_RecvErrorCloses ==
    (IsRecv /\ ret.wasOpen /\ ret.status # OK) => ~yak_is_open(conn)

(***************************************************************************)
(* C2: every call of yak_send_message on an open Connection that returns   *)
(* an error leaves the Connection closed, whatever the error: a negative   *)
(* length, a NULL payload of positive length, a short write or a failing   *)
(* send() in the header, the payload or the final newline.                 *)
(***************************************************************************)
C2_SendErrorCloses ==
    (ret.op = "send" /\ ret.wasOpen /\ ret.status # OK)
        => ~yak_is_open(conn) /\ FullyClosed(conn) /\ ret.closes = 1

\* a send that wrote the header and the payload and got no further
C2_Witness ==
    /\ ret.op = "send" /\ ret.wasOpen /\ ret.zero
    /\ ret.alen > 0
    /\ Len(ret.sent) = Len(Wire(ret.atype, ret.adata)) - 1
    /\ ret.status = "ECONNRESET"
    /\ ~yak_is_open(conn)

(***************************************************************************)
(* C3: whenever a public function has returned, the Connection is fully    *)
(* open (a socket that is open, a peer name, a port) or fully closed       *)
(* (socket -1, peer NULL, port 0), and a successful yak_connect has        *)
(* recorded the host and the port it was given.                            *)
(***************************************************************************)
C3_OpenOrClosed ==
    /\ FullyOpen(conn) \/ FullyClosed(conn)
    /\ (ret.op = "connect" /\ ret.status = OK)
           => /\ FullyOpen(conn)
              /\ conn.port = ret.aport
              /\ conn.peer = IF ret.ahost = NULL THEN "127.0.0.1" ELSE ret.ahost
    /\ ret.status # OK => FullyClosed(conn) \/ (ret.op = "recv" /\ ret.anull)
                              \/ ~ret.wasOpen

\* a yak_close whose close() failed has left the Connection fully closed
C3_Witness ==
    ret.op = "close" /\ ret.wasOpen /\ ret.status # OK /\ FullyClosed(conn)

(***************************************************************************)
(* C4 as claimed: every yak_close returns 0 and leaves the Connection      *)
(* closed.  Violated: the first yak_close of an open Connection returns    *)
(* the errno of a failing close().                                         *)
(***************************************************************************)
C4_Original ==
    ret.op = "close" => ret.status = OK /\ ~yak_is_open(conn)

(***************************************************************************)
(* C4 as amended: every yak_close leaves the Connection closed; on a       *)
(* Connection that is already closed (the second of two calls) it returns  *)
(* 0 and calls close() on no socket; on an open Connection it calls        *)
(* close() once and returns 0 unless that close() fails.                   *)
(***************************************************************************)
C4_CloseIdempotent ==
    ret.op = "close"
        => /\ ~yak_is_open(conn)
           /\ FullyClosed(conn)
           /\ ~ret.wasOpen => ret.status = OK /\ ret.closes = 0
           /\ ret.wasOpen => ret.closes = 1
           /\ ret.status # OK => ret.wasOpen /\ ret.status = errno

\* a yak_close of a Connection that was closed already, sockets still open
C4_Witness ==
    /\ ret.op = "close" /\ ~ret.wasOpen
    /\ ret.status = OK /\ ret.closes = 0
    /\ ~yak_is_open(conn)

(***************************************************************************)
(* The header of a stream as it is written, whatever the decoder makes of  *)
(* it: the digits from byte 3 on, the index of the byte that ends them,    *)
(* and the value they denote as a decimal number.                          *)
(***************************************************************************)
RECURSIVE DigitsEnd(_, _)
DigitsEnd(s, i) ==
    IF i <= Len(s) /\ IsDigit(s[i]) THEN DigitsEnd(s, i + 1) ELSE i

RECURSIVE DecimalValue(_)
DecimalValue(ds) ==
    IF ds = <<>> THEN 0
    ELSE 10 * DecimalValue(SubSeq(ds, 1, Len(ds) - 1)) + (ds[Len(ds)] - DIGIT0)

\* the decimal digits of n >= 0, most significant first, no leading zero
RECURSIVE DecimalDigits(_)
DecimalDigits(n) ==
    IF n < 10 THEN <<DIGIT0 + n>>
    ELSE DecimalDigits(n \div 10) \o <<DIGIT0 + (n % 10)>>

\* s begins with a type byte, ':' and a digit
HeaderStarts(s) == Len(s) >= 3 /\ s[2] = COLON /\ IsDigit(s[3])

\* s begins with a complete header: type, ':', digits, '\n'
HeaderComplete(s) ==
    HeaderStarts(s) /\ DigitsEnd(s, 3) <= Len(s) /\ s[DigitsEnd(s, 3)] = NL

\* the length a header declares
Declared(s) == DecimalValue(SubSeq(s, 3, DigitsEnd(s, 3) - 1))

\* the last call is a receive on an open Connection, with valid arguments,
\* during which no system call failed
CleanRecv == IsRecv /\ ret.wasOpen /\ ValidRecvArgs /\ NoOsFault

(***************************************************************************)
(* C5: round trip.  A successful yak_send_message(t, p) writes the frame   *)
(* Wire(t, p) however send() splits it, and a receive (either variant,     *)
(* maxlen >= Len(p) for the bounded one) whose input is Wire(t, p) returns *)
(* success with type t, length Len(p) and payload p, however recv() splits *)
(* the bytes.                                                              *)
(***************************************************************************)
C5_RoundTrip ==
    /\ (ret.op = "send" /\ ret.status = OK /\ ~ret.anull)
           => ret.sent = Wire(ret.atype, SubSeq(ret.adata, 1, ret.alen))
    /\ \A t \in Types, p \in Payloads :
           (/\ CleanRecv
            /\ ret.input = Wire(t, p)
            /\ ret.op = "recv_in_buffer" => ret.maxlen >= Len(p))
               => /\ ret.status = OK
                  /\ ret.type = t
                  /\ ret.len = Len(p)
                  /\ ret.out = p
                  /\ yak_is_open(conn)

\* the long payload, type '\n', has come back through yak_recv_message
C5_Witness ==
    /\ ret.op = "recv" /\ ret.wasOpen
    /\ ret.input = Wire(NL, LongPayload)
    /\ ret.status = OK
    /\ ret.type = NL
    /\ ret.out = LongPayload

(***************************************************************************)
(* C6: a successful yak_send_message(T, P, L) has written exactly T, ':',  *)
(* the decimal digits of L without leading zero, '\n', the L bytes of P,   *)
(* '\n', the final newline also when L is 0: ('X', "ping") gives           *)
(* X:4\nping\n and ('X', "") gives X:0\n\n.                                *)
(***************************************************************************)
C6_WireBytes ==
    /\ (ret.op = "send" /\ ret.status = OK)
           => /\ ret.wasOpen
              /\ ret.alen >= 0
              /\ ret.sent = <<ret.atype, COLON>> \o DecimalDigits(ret.alen)
                               \o <<NL>> \o SubSeq(ret.adata, 1, ret.alen)
                               \o <<NL>>
              /\ ret.sent[3] = DIGIT0 => ret.alen = 0
              /\ ret.alen = 0 => ret.sent = <<ret.atype, COLON, DIGIT0, NL, NL>>
    /\ Wire(LETTER, <<112, 105, 110, 103>>)
           = <<LETTER, COLON, DIGIT0 + 4, NL, 112, 105, 110, 103, NL>>

\* a frame with a two-digit length, written one byte per send()
C6_Witness ==
    /\ ret.op = "send" /\ ret.status = OK
    /\ ret.alen = LongLen
    /\ Len(ret.sent) = LongLen + 6

\* an empty message has been written
C6_WitnessEmpty ==
    ret.op = "send" /\ ret.status = OK /\ ret.alen = 0 /\ Len(ret.sent) = 5

(***************************************************************************)
(* C7: a header whose digits denote more than LONG_MAX makes the receive   *)
(* fail with EOVERFLOW, and whenever a header is accepted the decoded      *)
(* length is the value of its digits.  Violated: the test len < prev       *)
(* misses the overflows after which the wrapped value is not smaller       *)
(* (with an 8-bit long, 300 is accepted as 44), and a build may drop the   *)
(* test, the overflow being undefined.                                     *)
(***************************************************************************)
C7_OverflowDetected ==
    (CleanRecv /\ HeaderComplete(ret.input))
        => /\ Declared(ret.input) > LONG_MAX => ret.status = "EOVERFLOW"
           /\ ret.hstatus = OK => ret.hlen = Declared(ret.input)

(***************************************************************************)
(* C8 as claimed: a header whose second byte is not ':', whose third byte  *)
(* is not a digit, or with a byte that is neither a digit nor '\n' after   *)
(* the first digit, makes the receive fail with EBADMSG.  Violated: when   *)
(* the digits before the offending byte overflow, the receive has failed   *)
(* with EOVERFLOW before it reads that byte.                               *)
(***************************************************************************)
MalformedFixed(s) == Len(s) >= 4 /\ ~HeaderStarts(s)

MalformedDigits(s) ==
    HeaderStarts(s) /\ DigitsEnd(s, 3) <= Len(s) /\ s[DigitsEnd(s, 3)] # NL

C8_Original ==
    (CleanRecv /\ (MalformedFixed(ret.input) \/ MalformedDigits(ret.input)))
        => ret.status = "EBADMSG"

(***************************************************************************)
(* C8 as amended: such a header makes the receive fail with EBADMSG,       *)
(* unless the digits before the offending byte denote more than LONG_MAX,  *)
(* when it may fail with EOVERFLOW before that byte.  No byte after the    *)
(* four of the fixed part (offending byte among them), or after the        *)
(* offending byte further on, is read; nothing is delivered and the        *)
(* Connection is closed.                                                   *)
(***************************************************************************)
C8_MalformedHeader ==
    /\ (CleanRecv /\ MalformedFixed(ret.input))
           => /\ ret.status = "EBADMSG"
              /\ ret.nread = 4
    /\ (CleanRecv /\ MalformedDigits(ret.input))
           => /\ ret.status \in {"EBADMSG", "EOVERFLOW"}
              /\ ret.status = "EBADMSG"
                     => ret.nread = DigitsEnd(ret.input, 3)
              /\ ret.status = "EOVERFLOW"
                     => /\ Declared(ret.input) > LONG_MAX
                        /\ ret.nread < DigitsEnd(ret.input, 3)
              /\ Declared(ret.input) <= LONG_MAX => ret.status = "EBADMSG"
    /\ (CleanRecv /\ (MalformedFixed(ret.input) \/ MalformedDigits(ret.input)))
           => /\ ret.out = <<>>
              /\ ret.dataptr = NULL
              /\ ret.nalloc = 0
              /\ ~yak_is_open(conn)

\* a letter after two digits: five bytes read, the sixth left unread
C8_Witness ==
    /\ CleanRecv
    /\ MalformedDigits(ret.input)
    /\ ret.status = "EBADMSG"
    /\ ret.nread = 5
    /\ Len(ret.input) > 5

\* a missing ':' in a frame that is complete otherwise
C8_WitnessColon ==
    /\ CleanRecv
    /\ Len(ret.input) > 4
    /\ ret.input[2] # COLON /\ IsDigit(ret.input[3]) /\ ret.input[4] = NL
    /\ ret.status = "EBADMSG"
    /\ ret.nread = 4

(***************************************************************************)
(* C9: in both variants, when the header is accepted and the declared      *)
(* bytes of payload are there, a next byte that is not '\n' makes the      *)
(* receive fail with EBADMSG.  Violated: yak_recv_message does not call    *)
(* recv_message_data when the length is 0, so the final byte of an empty   *)
(* message is neither read nor checked, and the call succeeds.             *)
(***************************************************************************)
C9_TrailerEnforced ==
    (/\ CleanRecv
     /\ ret.hstatus = OK
     /\ ret.hlen >= 0
     /\ ret.op = "recv_in_buffer" => ret.hlen <= ret.maxlen
     /\ Len(ret.input) > ret.hread + ret.hlen
     /\ ret.input[ret.hread + ret.hlen + 1] # NL)
        => ret.status = "EBADMSG"

(***************************************************************************)
(* C10: bounded receive.  When the header declares a length (one a long    *)
(* can hold) greater than maxlen, yak_recv_message_in_buffer fails with    *)
(* EMSGSIZE, has read the header up to its '\n' and no byte more, has      *)
(* stored nothing in the buffer and leaves the Connection closed; and      *)
(* never does it store more than maxlen bytes in the buffer.               *)
(***************************************************************************)
C10_BoundedReceive ==
    /\ (/\ ret.op = "recv_in_buffer" /\ CleanRecv
        /\ HeaderComplete(ret.input)
        /\ Declared(ret.input) <= LONG_MAX
        /\ Declared(ret.input) > ret.maxlen)
           => /\ ret.status = "EMSGSIZE"
              /\ ret.nread = DigitsEnd(ret.input, 3)
              /\ ret.out = <<>>
              /\ ~yak_is_open(conn)
              /\ ret.closes = 1
    /\ (ret.op = "recv_in_buffer" /\ ret.maxlen >= 0)
           => Len(ret.out) <= ret.maxlen

\* a frame of two bytes refused by a buffer of one, the payload left unread
C10_Witness ==
    /\ ret.op = "recv_in_buffer" /\ CleanRecv
    /\ ret.maxlen = 1
    /\ ret.input = Wire(LETTER, <<NL, COLON>>)
    /\ ret.status = "EMSGSIZE"
    /\ ret.nread = 4
    /\ ~yak_is_open(conn)

(***************************************************************************)
(* The last call is a yak_connect: what the resolver and the network did.  *)
(***************************************************************************)
IsConnect == ret.op = "connect"

\* getaddrinfo was called and failed
ResolutionFailed == IsConnect /\ ret.gai = 1 /\ ret.alist = NoList

\* no descriptor was free on entry: every socket() of the call fails
Exhausted == Fds \ ret.ofds = {}

\* getaddrinfo gave candidates and none of them accepted the connection
NoCandidateAccepts ==
    /\ IsConnect /\ ret.gai = 1 /\ ret.alist # NoList
    /\ Exhausted \/ \A k \in 1..Len(ret.alist) : ret.alist[k] # "ok"

\* the candidates before candidate n that refused the connection
RefusedBefore(n) == {k \in 1..(n - 1) : ret.alist[k] = "refused"}

\* the statuses yak_connect returns when every candidate refuses
RefusedStatuses ==
    {yak_connect(yak_init, {}, "0", "hostA", 65535, l, FALSE, FALSE).status :
        l \in {c \in CandLists : c # NoList /\ \A k \in 1..Len(c) : c[k] = "refused"}}

(***************************************************************************)
(* C11: yak_connect with an empty host or with a port outside 0..65535     *)
(* fails with EINVAL, calls neither getaddrinfo nor socket, and leaves the *)
(* Connection closed.  Violated: yak_connect returns EACCES whenever no    *)
(* socket is connected, whatever errno listaddrinfo has set, and an empty  *)
(* host is passed to getaddrinfo.                                          *)
(***************************************************************************)
C11_ConnectRejects ==
    (IsConnect /\ (ret.ahost = "" \/ ret.aport < 0 \/ ret.aport > 65535))
        => /\ ret.status = "EINVAL"
           /\ ret.gai = 0
           /\ ret.nsock = 0
           /\ ~yak_is_open(conn)

(***************************************************************************)
(* C12: the status of a yak_connect whose name resolution fails is not a   *)
(* status of a yak_connect whose candidates all refuse: the two failures   *)
(* can be told apart.  Violated: both return EACCES.                       *)
(***************************************************************************)
C12_FailuresDistinct ==
    /\ ResolutionFailed => ret.status # OK /\ ret.status \notin RefusedStatuses
    /\ NoCandidateAccepts => ret.status # OK

(***************************************************************************)
(* C13: yak_connect tries the candidates in the order of the list and      *)
(* stops at the first that connects: the socket of the Connection is the   *)
(* one opened for it, socket() was called for no later candidate, and the  *)
(* socket of every candidate that refused has been closed: the sockets     *)
(* open on return are those open on entry and the one of the Connection.   *)
(***************************************************************************)
C13_FirstCandidate ==
    /\ (IsConnect /\ ret.status = OK)
           => /\ ret.tried \in 1..Len(ret.alist)
              /\ ret.alist[ret.tried] = "ok"
              /\ \A k \in 1..(ret.tried - 1) : ret.alist[k] # "ok"
              /\ ret.nsock = ret.tried
              /\ ret.closes = Cardinality(RefusedBefore(ret.tried))
              /\ conn.sock \notin ret.ofds
              /\ fds = ret.ofds \cup {conn.sock}
    /\ NoCandidateAccepts
           => /\ ret.nsock = Len(ret.alist)
              /\ ret.closes = IF Exhausted THEN 0
                              ELSE Cardinality(RefusedBefore(Len(ret.alist) + 1))
              /\ ~yak_is_open(conn)
              /\ fds = ret.ofds
    /\ (IsConnect /\ ret.status # OK) => fds = ret.ofds

\* the second candidate connected after the first refused and was closed
C13_Witness ==
    /\ IsConnect /\ ret.status = OK
    /\ ret.tried = 2
    /\ ret.alist[1] = "refused"
    /\ ret.closes = 1
    /\ Len(ret.alist) = MaxCand

(***************************************************************************)
(* C14: when the stream ends before the frame does (the peer has written a *)
(* proper prefix of a frame and closed), in the header, the payload or the *)
(* final newline, the receive fails with EBADMSG and not with the errno of *)
(* a failing recv(); a failing recv() yields its errno; the Connection is  *)
(* closed in both cases.  Violated: yak_recv_message does not read the     *)
(* final newline of an empty message, so it succeeds on X:0\n followed by  *)
(* the end of the stream.                                                  *)
(***************************************************************************)
ProperPrefix(s, F) == Len(s) < Len(F) /\ s = SubSeq(F, 1, Len(s))

C14_IncompleteMessage ==
    /\ \A F \in Frames :
           (/\ CleanRecv
            /\ ProperPrefix(ret.input, F)
            /\ ret.op = "recv_in_buffer" => ret.maxlen >= Declared(F))
               => /\ ret.status = "EBADMSG"
                  /\ ret.status \notin IoErrnos \cup {"EIO"}
                  /\ ~yak_is_open(conn)
    /\ (IsRecv /\ ret.wasOpen /\ ValidRecvArgs /\ ret.oserr)
           => /\ ret.status \in IoErrnos \cup {"EIO"}
              /\ ~yak_is_open(conn)

(***************************************************************************)
(* C15: in yak_send_message, a send() that reports zero progress, in the   *)
(* header, the payload or the final newline, is reported as ECONNRESET,    *)
(* and a send() that fails as its errno, whatever the calls before have    *)
(* left behind.  Violated: the status of a short write is                  *)
(* get_errno(ECONNRESET), which is the value of errno when it is not 0,    *)
(* and a send() that returns 0 does not set errno: the status is then the  *)
(* errno of an older failure, such as the ECONNREFUSED of a candidate that *)
(* yak_connect tried before the one that connected.                        *)
(***************************************************************************)
ValidSendArgs == ret.alen >= 0 /\ (ret.anull => ret.alen = 0)

C15_SendErrorKind ==
    (ret.op = "send" /\ ret.wasOpen /\ ValidSendArgs)
        => /\ ret.zero => ret.status = "ECONNRESET"
           /\ ret.oserr => ret.status \in IoErrnos \cup {"EIO"}

(***************************************************************************)
(* C16: yak_recv_message calls malloc at most once, for exactly the length *)
(* of the header and only when it is positive; on success the buffer is    *)
(* stored in *data and holds the payload (no buffer and *data NULL for an  *)
(* empty message); on failure every buffer allocated has been freed and    *)
(* *data is NULL; a malloc that fails gives ENOMEM and a closed            *)
(* Connection.                                                             *)
(***************************************************************************)
C16_BufferOwnership ==
    ret.op = "recv"
        => /\ ret.nalloc \in {0, 1}
           /\ ret.nfree <= ret.nalloc
           /\ ret.nalloc = 1
                  => /\ ret.hstatus = OK
                     /\ ret.hlen > 0
                     /\ ret.allocsz = ret.hlen
           /\ (ret.nalloc = 1 /\ HeaderComplete(ret.input)
                 /\ Declared(ret.input) <= LONG_MAX)
                  => ret.allocsz = Declared(ret.input)
           /\ (ret.wasOpen /\ ~ret.anull /\ ret.hstatus = OK /\ ret.hlen > 0)
                  => ret.nalloc = 1 \/ ret.nomem
           /\ (ret.status = OK /\ ret.len > 0)
                  => /\ ret.dataptr = "buf"
                     /\ ret.nalloc = 1
                     /\ ret.nfree = 0
                     /\ Len(ret.out) = ret.allocsz
           /\ (ret.status = OK /\ ret.len <= 0)
                  => /\ ret.dataptr = NULL
                     /\ ret.nalloc = 0
           /\ ret.status # OK
                  => /\ ret.dataptr = NULL
                     /\ ret.nfree = ret.nalloc
                     /\ ret.out = <<>>
           /\ ret.nomem
                  => /\ ret.status = "ENOMEM"
                     /\ ret.nalloc = 0
                     /\ ~yak_is_open(conn)

\* a buffer allocated for a payload that came short, freed before the return
C16_Witness ==
    /\ ret.op = "recv" /\ ret.wasOpen
    /\ ret.status = "EBADMSG"
    /\ ret.nalloc = 1 /\ ret.nfree = 1
    /\ ret.allocsz = 2
    /\ ret.dataptr = NULL

\* a malloc that failed
C16_WitnessNoMemory ==
    ret.op = "recv" /\ ret.nomem /\ ret.status = "ENOMEM" /\ ~yak_is_open(conn)

(***************************************************************************)
(* C17: yak_send_message, yak_recv_message_in_buffer and yak_recv_message  *)
(* on a closed Connection return EBADF, write and read nothing, and leave  *)
(* the Connection as it was (socket -1, peer NULL, port 0).  Violated:     *)
(* yak_recv_message tests data == NULL before the socket and returns       *)
(* EFAULT on a closed Connection.                                          *)
(***************************************************************************)
IsTransfer == ret.op \in {"send", "recv", "recv_in_buffer"}

C17_NotConnected ==
    (IsTransfer /\ ~ret.wasOpen)
        => /\ ret.status = "EBADF"
           /\ ret.sent = <<>>
           /\ ret.nread = 0
           /\ ret.closes = 0
           /\ FullyClosed(conn)

(***************************************************************************)
(* C18: send_data and recv_data resume after a partial or an interrupted   *)
(* transfer.  A yak_send_message whose send() calls each move at least one *)
(* byte or are interrupted by a signal (EINTR) writes the whole frame and  *)
(* succeeds; a receive whose recv() calls do, on a stream that holds a     *)
(* whole frame, succeeds.  Violated: a send() or recv() that returns -1    *)
(* with errno EINTR makes the loop return -1 like any other failure, and   *)
(* the call fails with EINTR.                                              *)
(***************************************************************************)
\* no system call of the last call failed but by an interruption
OnlyInterrupted == ~ret.zero /\ ~ret.nomem /\ (ret.oserr => ret.status = "EINTR")

C18_LoopsResume ==
    /\ (ret.op = "send" /\ ret.wasOpen /\ ValidSendArgs /\ OnlyInterrupted)
           => /\ ret.status = OK
              /\ ret.sent = Wire(ret.atype, SubSeq(ret.adata, 1, ret.alen))
    /\ \A F \in Frames :
           (/\ IsRecv /\ ret.wasOpen /\ ValidRecvArgs /\ OnlyInterrupted
            /\ ret.input = F
            /\ ret.op = "recv_in_buffer" => ret.maxlen >= Declared(F))
               => /\ ret.status = OK
                  /\ ret.len = Declared(F)

(***************************************************************************)
(* C19 as claimed: whenever a public function has returned, the sockets    *)
(* that are open are the socket of the Connection if it is open, and none  *)
(* otherwise.  Violated: yak_connect begins with yak_init and makes no     *)
(* attempt to close a Connection that is open on entry (as yak.h says), so *)
(* a connect on an open Connection leaves its former socket open and owned *)
(* by nobody.                                                              *)
(***************************************************************************)
Owned == fds = IF yak_is_open(conn) THEN {conn.sock} ELSE {}

C19_Original == Owned

(***************************************************************************)
(* C19 as amended: every call other than a yak_connect on a Connection     *)
(* that is open keeps the sockets owned: if the open sockets were the      *)
(* socket of the Connection or none before the call, they are after it,    *)
(* whether the call is a connect (also one whose strdup fails), a send, a  *)
(* receive or a close, and whatever its outcome.                           *)
(***************************************************************************)
ConnectOnOpen == ret'.op = "connect" /\ yak_is_open(conn)

C19_SingleOwner == [][(Owned /\ ~ConnectOnOpen) => Owned']_vars

\* a yak_connect whose strdup failed has closed the socket it had connected
C19_Witness ==
    /\ IsConnect /\ ~ret.wasOpen
    /\ ret.status = "ENOMEM"
    /\ ret.nsock >= 1
    /\ ret.closes >= 1
    /\ fds = {}
    /\ ~yak_is_open(conn)

(***************************************************************************)
(* C20: a receive that succeeds has read the bytes of one frame, the       *)
(* header up to its '\n', the declared payload and the final byte, and     *)
(* not one more; so when the stream holds two frames the first receive     *)
(* returns the first with its type and length, leaves exactly the second   *)
(* on the socket, and the Connection stays open.  Violated:                *)
(* yak_recv_message does not read the final newline of an empty message,   *)
(* which stays on the socket as the first byte of the next header.         *)
(***************************************************************************)
\* the length of the frame that begins s
FrameLen(s) == DigitsEnd(s, 3) + Declared(s) + 1

C20_OneFrame ==
    /\ (/\ CleanRecv /\ ret.status = OK
        /\ HeaderComplete(ret.input) /\ Declared(ret.input) <= LONG_MAX)
           => /\ ret.nread = FrameLen(ret.input)
              /\ rx = SubSeq(ret.input, FrameLen(ret.input) + 1, Len(ret.input))
              /\ yak_is_open(conn)
    /\ \A F \in Frames, G \in Frames :
           (/\ CleanRecv
            /\ ret.input = F \o G
            /\ ret.op = "recv_in_buffer" => ret.maxlen >= Declared(F))
               => /\ ret.status = OK
                  /\ ret.type = F[1]
                  /\ ret.len = Declared(F)
                  /\ rx = G
                  /\ yak_is_open(conn)

(***************************************************************************)
(* C21: the decoder accepts a length field only in the form the encoder    *)
(* writes, digits without a leading zero but for the single digit 0: a     *)
(* header whose length field is a '0' followed by another digit is         *)
(* rejected with EBADMSG, and no header read takes more bytes than the     *)
(* longest header of a length a long can hold.  Violated:                  *)
(* recv_message_info folds every digit it reads, so X:03\n is accepted as  *)
(* the length 3, and leading zeros never trip the overflow test, so the    *)
(* header read goes on for as many zeros as the peer sends.                *)
(***************************************************************************)
\* the length field of s is a '0' followed by a digit
LeadingZero(s) ==
    HeaderStarts(s) /\ s[3] = DIGIT0 /\ Len(s) >= 4 /\ IsDigit(s[4])

\* the bytes of the longest header the encoder writes
LongestHeader == 3 + Len(DecimalDigits(LONG_MAX))

C21_StrictLength ==
    /\ (CleanRecv /\ LeadingZero(ret.input))
           => /\ ret.hstatus = "EBADMSG"
              /\ ret.status = "EBADMSG"
              /\ ~yak_is_open(conn)
    /\ (IsRecv /\ ret.wasOpen) => ret.hread <= LongestHeader

====
